---- MODULE Spec2Model ----
(***************************************************************************)
(* Model of package errors (src/errors.go): the enriched error value, its  *)
(* constructors and builders, the chain inspection helpers and the zap log *)
(* adapter.                                                                *)
(*                                                                         *)
(* Strings are sequences of tokens (a token is a short piece of text), so  *)
(* concatenation is \o and len(s) > 0 is s # <<>>.  An error interface     *)
(* value is a record tagged by its dynamic type in the field kind:         *)
(*   "nil"          the nil interface                                      *)
(*   "errorString"  a leaf error without an Unwrap method (errors.New,     *)
(*                  fmt.Errorf without %w)                                 *)
(*   "wrapError"    a plain wrapper with Unwrap() error (fmt.Errorf %w)    *)
(*   "Error"        this package's struct, held by value                   *)
(* A slice of frames is [ptr, frames]: ptr identifies the backing array    *)
(* (0 for the nil slice), frames are its elements.                         *)
(***************************************************************************)
EXTENDS Integers, Sequences, FiniteSets, TLC

\* ---------------------------------------------------------------- bounds
MaxCaptures == 2       \* stackTrace() calls in one behaviour
MaxTexts == 3          \* formatted texts accumulated in one message
MaxChain == 3          \* links in a cause chain
MaxDepth == 8          \* application frames above a constructor

\* ------------------------------------------------------ program constants
PcCap == 10            \* make([]uintptr, 10)
Skip == 3              \* pc[3:n]

\* ---------------------------------------------------------------- values
NilErr == [kind |-> "nil"]
NilPayload == "<nil>"
NilSlice == [ptr |-> 0, frames |-> <<>>]

errorString(s) == [kind |-> "errorString", s |-> s]
wrapError(msg, err) == [kind |-> "wrapError", msg |-> msg, err |-> err]

\* type Error struct { message; payload; code; stacktrace; err }
Error(message, payload, code, stacktrace, err) ==
    [kind |-> "Error", message |-> message, payload |-> payload, code |-> code,
     stacktrace |-> stacktrace, err |-> err]

\* var e Error / Error{}: the zero value
ZeroError == Error(<<>>, NilPayload, 0, NilSlice, NilErr)

Min(a, b) == IF a < b THEN a ELSE b

\* ------------------------------------------------ fmt and errors packages
\* fmt.Sprintf(format, a...): a format is a sequence of tokens, the token
\* "%v" is a verb that consumes the next operand; fmt reports a missing or a
\* left-over operand in the output.
RECURSIVE Sprintf(_, _)
Sprintf(format, a) ==
    IF format = <<>>
    THEN IF a = <<>> THEN <<>> ELSE <<"%!(EXTRA ">> \o a \o <<")">>
    ELSE IF Head(format) = "%v"
         THEN IF a = <<>>
              THEN <<"%!v(MISSING)">> \o Sprintf(Tail(format), a)
              ELSE <<Head(a)>> \o Sprintf(Tail(format), Tail(a))
         ELSE <<Head(format)>> \o Sprintf(Tail(format), a)

\* fmt.Errorf(format, a...) for a format without %w: a leaf error whose text
\* is the formatted string.
fmtErrorf(format, a) == errorString(Sprintf(format, a))

\* err.Error(), dispatched on the dynamic type; err is not nil.
ErrorText(err) ==
    CASE err.kind = "Error" -> err.message
      [] err.kind = "errorString" -> err.s
      [] err.kind = "wrapError" -> err.msg

\* errors.Unwrap(err): the result of err's Unwrap() error method, nil when
\* the type has none. Error.Unwrap returns ee.err.
errorsUnwrap(err) ==
    CASE err.kind = "Error" -> err.err
      [] err.kind = "wrapError" -> err.err
      [] OTHER -> NilErr

\* reflect: is a value of err's dynamic type assignable to the target type
AssignableTo(err, targetType) ==
    \/ targetType = "interface{}"
    \/ err.kind = targetType

\* errors.As(err, target) for a target of type *targetType: the first error
\* of the chain assignable to targetType is copied into *target.
RECURSIVE errorsAs(_, _)
errorsAs(err, targetType) ==
    IF err.kind = "nil" THEN [ok |-> FALSE, target |-> ZeroError]
    ELSE IF AssignableTo(err, targetType) THEN [ok |-> TRUE, target |-> err]
    ELSE errorsAs(errorsUnwrap(err), targetType)

\* number of links of a cause chain
RECURSIVE ChainLen(_)
ChainLen(err) == IF err.kind = "nil" THEN 0 ELSE 1 + ChainLen(errorsUnwrap(err))

\* ------------------------------------------------------------ call stacks
Frame(function, file, line) == [Function |-> function, File |-> file, Line |-> line]

\* The goroutine's stack, innermost frame first, when stackTrace calls
\* runtime.Callers from constructor ctor (at source line) with depth
\* application frames above it.
CallStack(ctor, line, depth) ==
    << Frame(<<"runtime.Callers", 0>>, "extern.go", 0),
       Frame(<<"errors.stackTrace", 0>>, "errors.go", 88),
       Frame(<<ctor, 0>>, "errors.go", line) >>
    \o [i \in 1..depth |-> Frame(<<"main.f", i>>, "app.go", 10 * i)]

\* stackTrace(): stack is the goroutine's stack, ptr the fresh backing array.
\* runtime.Callers fills at most PcCap entries, the first Skip are dropped,
\* and the loop leaves before appending the frame that comes with more = false.
stackTrace(stack, ptr) ==
    LET n == Min(Len(stack), PcCap)
        pc == SubSeq(stack, Skip + 1, n)
        traceFrames == IF Len(pc) = 0 THEN <<>> ELSE SubSeq(pc, 1, Len(pc) - 1)
    IN  [ptr |-> ptr, frames |-> traceFrames]

\* ----------------------------------------------------------- constructors
Errorf(format, a, depth, ptr) ==
    Error(Sprintf(format, a), NilPayload, 0,
          stackTrace(CallStack("errors.Errorf", 50, depth), ptr),
          fmtErrorf(format, a))

\* WithMessage: arg is the caller's err after the call, ret the result.
WithMessage_Recapture(err, format, a, depth, ptr) ==
    LET found == errorsAs(err, "Error")
        parent == found.target
    IN  IF found.ok
        THEN [arg |-> err,
              ret |-> [parent EXCEPT
                         !.stacktrace = stackTrace(CallStack("errors.WithMessage", 59, depth), ptr),
                         !.message = Sprintf(format, a) \o <<": ">> \o parent.message]]
        ELSE [arg |-> err,
              ret |-> Error(Sprintf(format, a), NilPayload, 0,
                            stackTrace(CallStack("errors.WithMessage", 66, depth), ptr), err)]

WithMessage_Suffix(err, format, a, depth, ptr) ==
    LET found == errorsAs(err, "Error")
        parent == found.target
    IN  IF found.ok
        THEN [arg |-> err,
              ret |-> [parent EXCEPT
                         !.stacktrace = IF parent.stacktrace.ptr = 0
                                        THEN stackTrace(CallStack("errors.WithMessage", 59, depth), ptr)
                                        ELSE parent.stacktrace,
                         !.message = parent.message \o <<": ">> \o Sprintf(format, a)]]
        ELSE [arg |-> err,
              ret |-> Error(Sprintf(format, a), NilPayload, 0,
                            stackTrace(CallStack("errors.WithMessage", 66, depth), ptr), err)]

WithMessage_DropFields(err, format, a, depth, ptr) ==
    LET found == errorsAs(err, "Error")
        parent == found.target
    IN  IF found.ok
        THEN [arg |-> err,
              ret |-> Error(Sprintf(format, a) \o <<": ">> \o parent.message, NilPayload, 0,
                            IF parent.stacktrace.ptr = 0
                            THEN stackTrace(CallStack("errors.WithMessage", 59, depth), ptr)
                            ELSE parent.stacktrace,
                            parent.err)]
        ELSE [arg |-> err,
              ret |-> Error(Sprintf(format, a), NilPayload, 0,
                            stackTrace(CallStack("errors.WithMessage", 66, depth), ptr), err)]

WithMessage_NewLayer(err, format, a, depth, ptr) ==
    [arg |-> err,
     ret |-> Error(IF errorsAs(err, "Error").ok
                   THEN Sprintf(format, a) \o <<": ">> \o errorsAs(err, "Error").target.message
                   ELSE Sprintf(format, a),
                   NilPayload, 0,
                   stackTrace(CallStack("errors.WithMessage", 66, depth), ptr), err)]

WithMessage(err, format, a, depth, ptr) ==
    LET found == errorsAs(err, "Error")
        parent == found.target
    IN  IF found.ok
        THEN [arg |-> err,
              ret |-> [parent EXCEPT
                         !.stacktrace = IF parent.stacktrace.ptr = 0
                                        THEN stackTrace(CallStack("errors.WithMessage", 59, depth), ptr)
                                        ELSE parent.stacktrace,
                         !.message = Sprintf(format, a) \o <<": ">> \o parent.message]]
        ELSE [arg |-> err,
              ret |-> Error(Sprintf(format, a), NilPayload, 0,
                            stackTrace(CallStack("errors.WithMessage", 66, depth), ptr), err)]

\* Builders have value receivers: the callee works on a copy, so recv (the
\* caller's receiver after the call) is the receiver as passed.
WithPayload(ee, payload) ==
    [recv |-> ee, ret |-> [ee EXCEPT !.payload = payload]]

WithCode_PointerReceiver(ee, code) ==
    [recv |-> [ee EXCEPT !.code = code], ret |-> [ee EXCEPT !.code = code]]

WithCode(ee, code) ==
    [recv |-> ee, ret |-> [ee EXCEPT !.code = code]]

WithStacktrace(ee, depth, ptr) ==
    [recv |-> ee,
     ret |-> [ee EXCEPT !.stacktrace =
                stackTrace(CallStack("errors.Error.WithStacktrace", 82, depth), ptr)]]

\* ------------------------------------------------------------ log adapter
\* encoder.AddReflected fails on a value that has no structural encoding
\* (a channel, a function); the entry is written only when it succeeds.
Encodable(payload) == payload # "chan"

\* one line pair of the stacktrace entry: "%s\t\n%s:%d\n"
FrameText(frame) == <<frame.Function, "\t\n", frame.File, ":", frame.Line, "\n">>

EmptyRecord ==
    [outcome |-> "nil", keys |-> <<>>, message |-> <<>>, stacktrace |-> <<>>,
     payload |-> NilPayload]

\* Error.MarshalLogObject: the record written to the encoder (keys in the
\* order written) and the outcome: "nil", "error" (the encoder's error is
\* returned) or "panic" (ee.err.Error() on a nil interface).
MarshalLogObject(ee) ==
    LET r1 == IF Len(ee.message) > 0
              THEN IF ee.err.kind = "nil"
                   THEN [EmptyRecord EXCEPT !.outcome = "panic"]
                   ELSE [EmptyRecord EXCEPT !.keys = Append(@, "message"),
                                            !.message = ErrorText(ee.err)]
              ELSE EmptyRecord
        r2 == IF r1.outcome = "panic" THEN r1
              ELSE IF Len(ee.stacktrace.frames) > 0
              THEN [r1 EXCEPT !.keys = Append(@, "stacktrace"),
                              !.stacktrace = [i \in 1..Len(ee.stacktrace.frames) |->
                                                FrameText(ee.stacktrace.frames[i])]]
              ELSE r1
    IN  IF r2.outcome = "panic" THEN r2
        ELSE IF ee.payload # NilPayload
        THEN IF Encodable(ee.payload)
             THEN [r2 EXCEPT !.keys = Append(@, "payload"), !.payload = ee.payload]
             ELSE [r2 EXCEPT !.outcome = "error"]
        ELSE r2

\* Field: a zap.Field as [Key, Type, Interface]
Field_NilCheckFirst(err) ==
    IF err.kind # "nil"
    THEN [Key |-> "error", Type |-> "ReflectType",
          Interface |-> [message |-> ErrorText(err)]]
    ELSE [Key |-> "", Type |-> "SkipType", Interface |-> NilErr]

Field(err) ==
    LET found == errorsAs(err, "Error")
    IN  IF found.ok
        THEN [Key |-> "error", Type |-> "ObjectMarshalerType", Interface |-> found.target]
        ELSE IF err.kind # "nil"
        THEN [Key |-> "error", Type |-> "ReflectType",
              Interface |-> [message |-> ErrorText(err)]]
        ELSE [Key |-> "", Type |-> "SkipType", Interface |-> NilErr]

\* ------------------------------------------------------- chain inspection
\* As passes the address of its own parameter, a *interface{}, to errors.As.
As(err, target) == errorsAs(err, "interface{}").ok

Unwrap(err) ==
    IF errorsAs(err, "Error").ok THEN errorsUnwrap(err) ELSE err

\* Log: Field(err) is built and encoded by logger.With, then err.Error() is
\* evaluated for the entry's text.
Log(err) ==
    LET field == Field(err)
        rendered == IF field.Type = "ObjectMarshalerType"
                    THEN MarshalLogObject(field.Interface)
                    ELSE EmptyRecord
    IN  IF rendered.outcome = "panic" \/ err.kind = "nil"
        THEN [outcome |-> "panic"]
        ELSE [outcome |-> "logged", level |-> "error", msg |-> ErrorText(err),
              field |-> field]

\* ------------------------------------------------------------------ state
VARIABLES
    cur,      \* the error the application holds (an error interface value)
    held,     \* the receiver or argument of the last call, as the caller sees it after the call
    nalloc,   \* backing arrays allocated by stackTrace so far
    made,     \* the call that produced cur: its name, inputs and the state before it
    obs,      \* the last inspection of cur (As, Unwrap, Field, MarshalLogObject, Log)
    first,    \* history: the enriched error cur's chain carries, NilErr when none
    trace0,   \* history: the slice captured at first construction or explicit re-capture
    root,     \* history: the cause the failure started with
    texts     \* history: the formatted texts added so far, oldest first

vars == <<cur, held, nalloc, made, obs, first, trace0, root, texts>>

\* inputs
FmtCalls ==
    { [format |-> <<>>, a |-> <<>>],
      [format |-> <<"get ", "%v">>, a |-> <<"a">>] }
Payloads == {"map[id:1]", "chan"}
Codes == {0, 404}
Depths == {1, MaxDepth}
PlainTexts == {<<"boom">>}

NoCall == [op |-> "none", arg |-> NilErr, before |-> NilErr, in |-> <<>>]
NoObs == [op |-> "none"]

Init ==
    /\ cur = NilErr
    /\ held = NilErr
    /\ nalloc = 0
    /\ made = NoCall
    /\ obs = NoObs
    /\ first = NilErr
    /\ trace0 = NilSlice
    /\ root = NilErr
    /\ texts = <<>>

\* err := errors.New(s)
NewPlain(s) ==
    /\ made.op = "none"
    /\ cur' = errorString(s)
    /\ made' = [op |-> "errors.New", arg |-> NilErr, before |-> NilErr, in |-> s]
    /\ obs' = NoObs
    /\ first' = NilErr
    /\ trace0' = NilSlice
    /\ root' = NilErr
    /\ texts' = <<>>
    /\ held' = NilErr
    /\ UNCHANGED nalloc

\* err = fmt.Errorf("wrap: %w", err)
PlainWrap ==
    /\ cur.kind # "nil"
    /\ ChainLen(cur) < MaxChain
    /\ cur' = wrapError(<<"wrap", ": ">> \o ErrorText(cur), cur)
    /\ made' = [op |-> "fmt.Errorf", arg |-> cur, before |-> first, in |-> <<>>]
    /\ obs' = NoObs
    /\ held' = cur
    /\ UNCHANGED <<nalloc, first, trace0, root, texts>>

\* var e Error
ZeroValue ==
    /\ made.op = "none"
    /\ cur' = ZeroError
    /\ made' = [op |-> "Error{}", arg |-> NilErr, before |-> NilErr, in |-> <<>>]
    /\ obs' = NoObs
    /\ first' = ZeroError
    /\ trace0' = NilSlice
    /\ root' = NilErr
    /\ texts' = << <<>> >>
    /\ held' = NilErr
    /\ UNCHANGED nalloc

DoErrorf(fc, depth) ==
    /\ made.op = "none"
    /\ nalloc < MaxCaptures
    /\ cur' = Errorf(fc.format, fc.a, depth, nalloc + 1)
    /\ nalloc' = nalloc + 1
    /\ made' = [op |-> "Errorf", arg |-> NilErr, before |-> NilErr, in |-> fc]
    /\ obs' = NoObs
    /\ first' = cur'
    /\ trace0' = cur'.stacktrace
    /\ root' = cur'.err
    /\ texts' = << Sprintf(fc.format, fc.a) >>
    /\ held' = NilErr

DoWithMessage(fc, depth) ==
    LET r == WithMessage(cur, fc.format, fc.a, depth, nalloc + 1)
        captured == r.ret.stacktrace.ptr = nalloc + 1
        enriched == first.kind = "Error"
    IN  /\ captured => nalloc < MaxCaptures
        /\ enriched => Len(texts) < MaxTexts
        /\ cur' = r.ret
        /\ held' = r.arg
        /\ nalloc' = IF captured THEN nalloc + 1 ELSE nalloc
        /\ made' = [op |-> "WithMessage", arg |-> cur, before |-> first, in |-> fc]
        /\ obs' = NoObs
        /\ first' = r.ret
        /\ trace0' = IF enriched /\ first.stacktrace.ptr # 0 THEN trace0 ELSE r.ret.stacktrace
        /\ root' = IF enriched THEN root ELSE cur
        /\ texts' = IF enriched THEN Append(texts, Sprintf(fc.format, fc.a))
                                ELSE << Sprintf(fc.format, fc.a) >>

DoWithPayload(payload) ==
    /\ cur.kind = "Error"
    /\ LET r == WithPayload(cur, payload)
       IN  /\ cur' = r.ret
           /\ held' = r.recv
           /\ first' = r.ret
    /\ made' = [op |-> "WithPayload", arg |-> cur, before |-> first, in |-> payload]
    /\ obs' = NoObs
    /\ UNCHANGED <<nalloc, trace0, root, texts>>

DoWithCode(code) ==
    /\ cur.kind = "Error"
    /\ LET r == WithCode(cur, code)
       IN  /\ cur' = r.ret
           /\ held' = r.recv
           /\ first' = r.ret
    /\ made' = [op |-> "WithCode", arg |-> cur, before |-> first, in |-> code]
    /\ obs' = NoObs
    /\ UNCHANGED <<nalloc, trace0, root, texts>>

DoWithStacktrace(depth) ==
    /\ cur.kind = "Error"
    /\ nalloc < MaxCaptures
    /\ LET r == WithStacktrace(cur, depth, nalloc + 1)
       IN  /\ cur' = r.ret
           /\ held' = r.recv
           /\ first' = r.ret
           /\ trace0' = r.ret.stacktrace
    /\ nalloc' = nalloc + 1
    /\ made' = [op |-> "WithStacktrace", arg |-> cur, before |-> first, in |-> depth]
    /\ obs' = NoObs
    /\ UNCHANGED <<root, texts>>

\* inspections of cur: none changes the program's state
DoAs ==
    /\ obs' = [op |-> "As", ok |-> As(cur, ZeroError)]
    /\ UNCHANGED <<cur, held, nalloc, made, first, trace0, root, texts>>

DoUnwrap ==
    /\ obs' = [op |-> "Unwrap", res |-> Unwrap(cur)]
    /\ UNCHANGED <<cur, held, nalloc, made, first, trace0, root, texts>>

DoField ==
    /\ obs' = [op |-> "Field", field |-> Field(cur)]
    /\ UNCHANGED <<cur, held, nalloc, made, first, trace0, root, texts>>

\* the encoder renders the object carried by Field(cur)
DoMarshalLogObject ==
    /\ Field(cur).Type = "ObjectMarshalerType"
    /\ obs' = [op |-> "MarshalLogObject", ee |-> Field(cur).Interface,
               rec |-> MarshalLogObject(Field(cur).Interface)]
    /\ UNCHANGED <<cur, held, nalloc, made, first, trace0, root, texts>>

DoLog ==
    /\ obs' = [op |-> "Log", entry |-> Log(cur)]
    /\ UNCHANGED <<cur, held, nalloc, made, first, trace0, root, texts>>

Next ==
    \/ \E s \in PlainTexts : NewPlain(s)
    \/ PlainWrap
    \/ ZeroValue
    \/ \E fc \in FmtCalls, depth \in Depths : DoErrorf(fc, depth)
    \/ \E fc \in FmtCalls, depth \in Depths : DoWithMessage(fc, depth)
    \/ \E payload \in Payloads : DoWithPayload(payload)
    \/ \E code \in Codes : DoWithCode(code)
    \/ \E depth \in Depths : DoWithStacktrace(depth)
    \/ DoAs
    \/ DoUnwrap
    \/ DoField
    \/ DoMarshalLogObject
    \/ DoLog

Spec == Init /\ [][Next]_vars

\* ----------------------------------------------------------------- claims
HasKey(rec, key) == \E i \in 1..Len(rec.keys) : rec.keys[i] = key

\* "pn: ... : p1: m0" for ts = <<m0, p1, ..., pn>>
RECURSIVE Chained(_)
Chained(ts) ==
    IF Len(ts) = 1 THEN ts[1]
    ELSE ts[Len(ts)] \o <<": ">> \o Chained(SubSeq(ts, 1, Len(ts) - 1))

\* C1: As(err, target) is true exactly when err's cause chain carries an
\* Enriched Error; it is false for a plain error, a chain of plain wrappers
\* and nil.
C1_AsReportsEnriched ==
    obs.op = "As" => (obs.ok <=> first.kind = "Error")

\* C2: Unwrap(err) is the immediate cause of the first Enriched Error of
\* err's chain when there is one (also when err is a plain wrapper around
\* it), and err itself when there is none.
C2_UnwrapGivesCauseOfEnriched ==
    obs.op = "Unwrap" =>
        IF first.kind = "Error" THEN obs.res = first.err ELSE obs.res = cur

\* C3: the stack trace of the Enriched Error is the one captured when the
\* failure was first enriched (or explicitly re-captured by WithStacktrace):
\* no WithMessage, WithPayload or WithCode after that replaces it.
C3_StacktraceKept ==
    errorsAs(cur, "Error").ok =>
        /\ errorsAs(cur, "Error").target.stacktrace = trace0
        /\ (made.op \in {"WithMessage", "WithPayload", "WithCode"}
              /\ made.before.kind = "Error" /\ made.before.stacktrace.ptr # 0
            => cur.stacktrace = made.before.stacktrace)

C3_Witness ==
    /\ made.op = "WithMessage"
    /\ made.before.kind = "Error"
    /\ root.kind = "errorString"
    /\ Len(texts) = 3
    /\ Len(cur.stacktrace.frames) > 0
    /\ cur.stacktrace.ptr = 1
    /\ nalloc = 1

\* C4: Errorf's text is the formatted string, WithMessage on an enriched err
\* with message m gives format + ": " + m, so the message is the texts added
\* so far joined by ": ", the most recent first.
C4_MessageChain ==
    /\ made.op = "Errorf" => ErrorText(cur) = Sprintf(made.in.format, made.in.a)
    /\ made.op = "WithMessage" /\ made.before.kind = "Error" =>
          ErrorText(cur) = Sprintf(made.in.format, made.in.a) \o <<": ">> \o made.before.message
    /\ errorsAs(cur, "Error").ok =>
          ErrorText(errorsAs(cur, "Error").target) = Chained(texts)

C4_Witness ==
    /\ made.op = "WithMessage"
    /\ made.before.kind = "Error"
    /\ texts = << <<"get ", "a">>, <<>>, <<"get ", "a">> >>
    /\ cur.message = <<"get ", "a", ": ", ": ", "get ", "a">>

\* C5: Unwrap(WithMessage(err, ...)) is err when err carries no Enriched
\* Error and the cause of the Enriched Error when it carries one; after any
\* number of wraps one Unwrap gives the cause the failure started with.
C5_UnwrapAfterWithMessage ==
    obs.op = "Unwrap" =>
        /\ made.op = "WithMessage" =>
              IF made.before.kind = "Error"
              THEN obs.res = made.before.err
              ELSE obs.res = made.arg
        /\ cur.kind = "Error" => obs.res = root

C5_Witness ==
    /\ obs.op = "Unwrap"
    /\ made.op = "WithMessage"
    /\ made.before.kind = "Error"
    /\ Len(texts) = 3
    /\ obs.res.kind = "wrapError"
    /\ obs.res = root

\* C6: the rendered record has a message entry exactly when the wrapped
\* cause's text is present and non-empty (and then it is that text), a
\* stacktrace entry exactly when frames were captured, in capture order, a
\* payload entry exactly when a payload is attached, and never a code entry.
C6_RecordKeysFollowSources ==
    obs.op = "MarshalLogObject" =>
        LET ee == obs.ee
            rec == obs.rec
        IN  /\ HasKey(rec, "message") <=>
                  (ee.err.kind # "nil" /\ ErrorText(ee.err) # <<>>)
            /\ HasKey(rec, "message") => rec.message = ErrorText(ee.err)
            /\ HasKey(rec, "stacktrace") <=> Len(ee.stacktrace.frames) > 0
            /\ HasKey(rec, "stacktrace") =>
                  /\ Len(rec.stacktrace) = Len(ee.stacktrace.frames)
                  /\ \A i \in 1..Len(rec.stacktrace) :
                        /\ rec.stacktrace[i][1] = ee.stacktrace.frames[i].Function
                        /\ rec.stacktrace[i][3] = ee.stacktrace.frames[i].File
                        /\ rec.stacktrace[i][5] = ee.stacktrace.frames[i].Line
            /\ rec.outcome = "nil" => (HasKey(rec, "payload") <=> ee.payload # NilPayload)
            /\ ~HasKey(rec, "code")

\* C7: Field(err) carries the Enriched Error of err's chain under the key
\* "error" when there is one, the mapping {"message": err.Error()} under
\* "error" when err is a plain non-nil error, and is the skip field for nil.
C7_FieldCases ==
    obs.op = "Field" =>
        IF first.kind = "Error"
        THEN /\ obs.field.Key = "error"
             /\ obs.field.Type = "ObjectMarshalerType"
             /\ obs.field.Interface = first
        ELSE IF cur.kind # "nil"
        THEN /\ obs.field.Key = "error"
             /\ obs.field.Type = "ReflectType"
             /\ obs.field.Interface = [message |-> ErrorText(cur)]
        ELSE obs.field.Type = "SkipType"

C7_Witness ==
    /\ obs.op = "Field"
    /\ cur.kind = "wrapError"
    /\ first.kind = "Error"
    /\ first.payload # NilPayload
    /\ obs.field.Type = "ObjectMarshalerType"
    /\ obs.field.Interface.kind = "Error"

\* C8: a builder returns the receiver with exactly its one field set, and
\* neither a builder nor WithMessage changes the value the caller passed.
C8_BuildersCopy ==
    /\ made.op \in {"WithPayload", "WithCode", "WithStacktrace", "WithMessage"} =>
          held = made.arg
    /\ made.op = "WithPayload" =>
          cur = [made.arg EXCEPT !.payload = made.in]
    /\ made.op = "WithCode" =>
          cur = [made.arg EXCEPT !.code = made.in]
    /\ made.op = "WithStacktrace" =>
          /\ cur = [made.arg EXCEPT !.stacktrace = cur.stacktrace]
          /\ cur.stacktrace.ptr = nalloc
          /\ cur.stacktrace.ptr # made.arg.stacktrace.ptr

C8_Witness ==
    /\ made.op = "WithCode"
    /\ made.arg.code = 404
    /\ cur.code = 0
    /\ held.code = 404
    /\ cur.payload # NilPayload

\* C9: WithMessage on an err that carries an Enriched Error keeps that
\* error's cause, payload and code, and its stack trace when it has one.
C9_WithMessageKeepsFields ==
    made.op = "WithMessage" /\ made.before.kind = "Error" =>
        /\ cur.err = made.before.err
        /\ cur.payload = made.before.payload
        /\ cur.code = made.before.code
        /\ made.before.stacktrace.ptr # 0 => cur.stacktrace = made.before.stacktrace
        /\ made.before.stacktrace.ptr = 0 => cur.stacktrace.ptr = nalloc

C9_Witness ==
    /\ made.op = "WithMessage"
    /\ made.before.kind = "Error"
    /\ made.arg.kind = "wrapError"
    /\ cur.code = 404
    /\ cur.payload = "map[id:1]"
    /\ Len(texts) = 3

\* C10: rendering any Enriched Error the constructors can produce ends
\* without a runtime fault: it returns nil or the payload encoding error.
C10_RenderingTotal ==
    obs.op = "MarshalLogObject" => obs.rec.outcome \in {"nil", "error"}

====
